---- MODULE Spec2Model ----
(***************************************************************************)
(* Model of update_notes_index.py: the navigation extractor, the category *)
(* aggregator, the three renderers, the sync writer and main.              *)
(*                                                                         *)
(* Text is a sequence of characters (one-character strings).  A fixed run  *)
(* of ordinary text of the script's templates is written as one symbol in  *)
(* angle brackets ("<INTRO>"); such a symbol is never whitespace, never a  *)
(* Markdown-significant character and never a line break.                  *)
(***************************************************************************)
EXTENDS Integers, Sequences, FiniteSets, TLC

VARIABLES mkdocs, fs, runs, call

vars == <<mkdocs, fs, runs, call>>

\* ------------------------------------------------------------------------
\* Bounds of the model
\* ------------------------------------------------------------------------
MaxTitleLen == 2
MaxNav == 2
MaxLines == 3
MaxRuns == 2

\* ------------------------------------------------------------------------
\* str helpers (Python semantics, character by character)
\* ------------------------------------------------------------------------
Whitespace == {" ", "\n", "\t"}

RECURSIVE Concat(_)
Concat(ss) == IF ss = <<>> THEN <<>> ELSE Head(ss) \o Concat(Tail(ss))

\* str.replace(old, new) for a one-character old
Replace(text, old, new) ==
    Concat([i \in 1..Len(text) |-> IF text[i] = old THEN new ELSE <<text[i]>>])

RECURSIVE RStripSet(_, _)
RStripSet(text, cs) ==
    IF text # <<>> /\ text[Len(text)] \in cs
    THEN RStripSet(SubSeq(text, 1, Len(text) - 1), cs)
    ELSE text

RECURSIVE LStripSet(_, _)
LStripSet(text, cs) ==
    IF text # <<>> /\ Head(text) \in cs THEN LStripSet(Tail(text), cs) ELSE text

rstrip(text) == RStripSet(text, Whitespace)
strip(text) == LStripSet(RStripSet(text, Whitespace), Whitespace)

\* str.split(sep): every separator splits, empty segments are kept
RECURSIVE SplitFrom(_, _, _)
SplitFrom(text, sep, cur) ==
    IF text = <<>> THEN <<cur>>
    ELSE IF Head(text) = sep THEN <<cur>> \o SplitFrom(Tail(text), sep, <<>>)
    ELSE SplitFrom(Tail(text), sep, Append(cur, Head(text)))

split(text, sep) == SplitFrom(text, sep, <<>>)

\* sep.join(parts)
RECURSIVE join(_, _)
join(sep, parts) ==
    IF parts = <<>> THEN <<>>
    ELSE IF Len(parts) = 1 THEN parts[1]
    ELSE parts[1] \o sep \o join(sep, Tail(parts))

\* str.splitlines(): a final line break does not open a further line
splitlines(text) ==
    IF text = <<>> THEN <<>>
    ELSE LET ps == split(text, "\n")
         IN IF ps[Len(ps)] = <<>> THEN SubSeq(ps, 1, Len(ps) - 1) ELSE ps

startswith(text, prefix) ==
    Len(text) >= Len(prefix) /\ SubSeq(text, 1, Len(prefix)) = prefix

endswith(text, suffix) ==
    Len(text) >= Len(suffix)
    /\ SubSeq(text, Len(text) - Len(suffix) + 1, Len(text)) = suffix

LowerChar(c) ==
    CASE c = "A" -> "a" [] c = "B" -> "b" [] c = "I" -> "i" [] c = "M" -> "m"
      [] c = "D" -> "d" [] OTHER -> c

lower(text) == [i \in 1..Len(text) |-> LowerChar(text[i])]

\* code points of the characters that occur in names
Ord(c) ==
    CASE c = "#" -> 35 [] c = "." -> 46 [] c = "B" -> 66 [] c = "D" -> 68
      [] c = "I" -> 73 [] c = "M" -> 77 [] c = "_" -> 95 [] c = "a" -> 97
      [] c = "b" -> 98 [] c = "c" -> 99 [] c = "d" -> 100 [] c = "e" -> 101
      [] c = "i" -> 105 [] c = "m" -> 109 [] c = "n" -> 110 [] c = "s" -> 115
      [] c = "t" -> 116 [] c = "x" -> 120 [] OTHER -> 200

\* s < t for Python strings
RECURSIVE StrLess(_, _)
StrLess(s, t) ==
    IF t = <<>> THEN FALSE
    ELSE IF s = <<>> THEN TRUE
    ELSE IF Head(s) = Head(t) THEN StrLess(Tail(s), Tail(t))
    ELSE Ord(Head(s)) < Ord(Head(t))

\* ------------------------------------------------------------------------
\* md_escape, rel_url
\* ------------------------------------------------------------------------
SpecialChars == {"\\", "*", "_", "[", "]", "(", ")", "#"}

md_escape_backslash_last(text) ==
    Replace(Replace(Replace(Replace(Replace(Replace(Replace(Replace(text,
        "*", <<"\\", "*">>),
        "_", <<"\\", "_">>),
        "[", <<"\\", "[">>),
        "]", <<"\\", "]">>),
        "(", <<"\\", "(">>),
        ")", <<"\\", ")">>),
        "#", <<"\\", "#">>),
        "\\", <<"\\", "\\">>)

md_escape(text) ==
    Replace(Replace(Replace(Replace(Replace(Replace(Replace(Replace(text,
        "\\", <<"\\", "\\">>),
        "*", <<"\\", "*">>),
        "_", <<"\\", "_">>),
        "[", <<"\\", "[">>),
        "]", <<"\\", "]">>),
        "(", <<"\\", "(">>),
        ")", <<"\\", ")">>),
        "#", <<"\\", "#">>)

rel_url(parts) == join(<<"/">>, parts)


\* ------------------------------------------------------------------------
\* Names and fixed texts
\* ------------------------------------------------------------------------
INDEX_MD == <<"i", "n", "d", "e", "x", ".", "m", "d">>
ALL_NOTES_MD == <<"a", "l", "l", "-", "n", "o", "t", "e", "s", ".", "m", "d">>
DOT_MD == <<".", "m", "d">>

\* a path below NOTES_DIR is the sequence of its components
INDEX_PATH == <<INDEX_MD>>
ALL_NOTES_PATH == <<ALL_NOTES_MD>>

INTRO == <<"<INTRO>">>
CATEGORIES_HEADING == <<"#", "#", " ", "<CATEGORIES_HEADING>">>
OUTRO == <<"<OUTRO>">>
ALL_NOTES_TITLE == <<"#", " ", "<ALL_NOTES_TITLE>">>
ALL_NOTES_INTRO == <<">", " ", "<ALL_NOTES_INTRO>">>
PLACEHOLDER_DESCRIPTION == <<"<PLACEHOLDER_DESCRIPTION>">>
NO_ENTRIES_LINE == <<"_", "<NO_ENTRIES>", "_">>
CATEGORY_INDEX_NOTE_1 == <<">", " ", "<CATEGORY_INDEX_NOTE_1>">>
CATEGORY_INDEX_NOTE_2 == <<">", " ", "<CATEGORY_INDEX_NOTE_2>">>
FULLWIDTH_COLON == <<"<FULLWIDTH_COLON>">>
CATEGORIES_KEY == <<"<CATEGORIES_KEY>">>

DirMisc == <<"m", "i", "s", "c">>
DirAB == <<"a", "_", "b">>
DirB == <<"B">>

\* CATEGORY_DESCRIPTIONS.get(name, PLACEHOLDER_DESCRIPTION)
CATEGORY_DESCRIPTIONS(name) ==
    IF name = DirMisc THEN <<"<DESCRIPTION_misc>">> ELSE PLACEHOLDER_DESCRIPTION

\* ------------------------------------------------------------------------
\* The file system below NOTES_DIR
\*   fs.notes    : NOTES_DIR exists
\*   fs.dirs     : names of the directories directly below NOTES_DIR
\*   fs.files    : content of every regular file, by path
\*   fs.readonly : paths whose write_text raises PermissionError
\* ------------------------------------------------------------------------
exists(f, path) == path \in DOMAIN f.files \/ (Len(path) = 1 /\ path[1] \in f.dirs)
is_dir(f, path) == Len(path) = 1 /\ path[1] \in f.dirs
read_text(f, path) == f.files[path]

\* names of the entries of a directory below NOTES_DIR
listdir(f, d) == {p[2] : p \in {q \in DOMAIN f.files : Len(q) = 2 /\ q[1] = d}}

\* Path.stem: the name without its last suffix
RECURSIVE LastDot(_, _)
LastDot(name, i) ==
    IF i = 0 THEN 0 ELSE IF name[i] = "." THEN i ELSE LastDot(name, i - 1)

stem(name) ==
    LET i == LastDot(name, Len(name))
    IN IF i > 1 THEN SubSeq(name, 1, i - 1) ELSE name

\* sorted(items, key=lambda p: p.name.lower())
RECURSIVE SortedByLower(_)
SortedByLower(S) ==
    IF S = {} THEN <<>>
    ELSE LET m == CHOOSE x \in S : \A y \in S : ~StrLess(lower(y), lower(x))
         IN <<m>> \o SortedByLower(S \ {m})

RECURSIVE SortedByName(_)
SortedByName(S) ==
    IF S = {} THEN <<>>
    ELSE LET m == CHOOSE x \in S : \A y \in S : ~StrLess(y, x)
         IN <<m>> \o SortedByName(S \ {m})

\* ------------------------------------------------------------------------
\* write_if_changed
\* ------------------------------------------------------------------------
write_if_changed_always(f, path, content) ==
    IF path \in f.readonly
    THEN [fs |-> f, wrote |-> FALSE, raised |-> TRUE]
    ELSE [fs |-> [f EXCEPT !.files =
                    [p \in DOMAIN f.files \cup {path} |->
                        IF p = path THEN content ELSE f.files[p]]],
          wrote |-> TRUE, raised |-> FALSE]

write_if_changed(f, path, content) ==
    LET old == IF path \in DOMAIN f.files THEN read_text(f, path) ELSE <<>>
    IN IF old # content
       THEN IF path \in f.readonly
            THEN [fs |-> f, wrote |-> FALSE, raised |-> TRUE]
            ELSE [fs |-> [f EXCEPT !.files =
                            [p \in DOMAIN f.files \cup {path} |->
                                IF p = path THEN content ELSE f.files[p]]],
                  wrote |-> TRUE, raised |-> FALSE]
       ELSE [fs |-> f, wrote |-> FALSE, raised |-> FALSE]

\* ------------------------------------------------------------------------
\* Titles
\* ------------------------------------------------------------------------
RECURSIVE FirstHeading(_, _)
FirstHeading(lines, fallback) ==
    IF lines = <<>> THEN fallback
    ELSE LET stripped == strip(Head(lines))
         IN IF startswith(stripped, <<"#">>)
            THEN strip(LStripSet(stripped, {"#", " "}))
            ELSE FirstHeading(Tail(lines), fallback)

read_category_title(f, d) ==
    FirstHeading(splitlines(read_text(f, <<d, INDEX_MD>>)), d)

USE_H1_TITLES == FALSE

\* the first line "# text" of the note, else the stem
RECURSIVE FirstH1(_, _)
FirstH1(lines, fallback) ==
    IF lines = <<>> THEN fallback
    ELSE LET s == strip(Head(lines))
         IN IF Len(s) >= 3 /\ s[1] = "#" /\ s[2] \in Whitespace
               /\ LStripSet(Tail(s), Whitespace) # <<>>
            THEN strip(LStripSet(Tail(s), Whitespace))
            ELSE FirstH1(Tail(lines), fallback)

read_note_title(f, d, name) ==
    IF ~USE_H1_TITLES THEN stem(name)
    ELSE FirstH1(splitlines(read_text(f, <<d, name>>)), stem(name))


\* ------------------------------------------------------------------------
\* gather_categories
\* ------------------------------------------------------------------------
Category(title, directory, index_rel_path) ==
    [title |-> title, directory |-> directory, index_rel_path |-> index_rel_path]

\* the loop over nav_entries: the categories appended, in order
RECURSIVE NavCategories(_, _)
NavCategories(nav_entries, f) ==
    IF nav_entries = <<>> THEN <<>>
    ELSE LET title == Head(nav_entries)[1]
             rel_path == Head(nav_entries)[2]
             directory_name == split(rel_path, "/")[1]
             rest == NavCategories(Tail(nav_entries), f)
         IN IF ~exists(f, <<directory_name>>) \/ ~is_dir(f, <<directory_name>>)
            THEN rest
            ELSE <<Category(title, directory_name, rel_path)>> \o rest

\* seen_dirs after the loop
SeenDirs(nav_entries, f) ==
    {split(nav_entries[i][2], "/")[1] : i \in
        {j \in 1..Len(nav_entries) : is_dir(f, <<split(nav_entries[j][2], "/")[1]>>)}}

RemainingCategories(remaining_dirs, f) ==
    [i \in 1..Len(remaining_dirs) |->
        Category(read_category_title(f, remaining_dirs[i]),
                 remaining_dirs[i],
                 remaining_dirs[i] \o <<"/">> \o INDEX_MD)]

gather_categories_plain_sort(nav_entries, f) ==
    LET seen_dirs == SeenDirs(nav_entries, f)
        remaining_dirs == SortedByName({d \in f.dirs :
                              /\ exists(f, <<d, INDEX_MD>>)
                              /\ d \notin seen_dirs})
    IN NavCategories(nav_entries, f) \o RemainingCategories(remaining_dirs, f)

gather_categories(nav_entries, f) ==
    LET seen_dirs == SeenDirs(nav_entries, f)
        remaining_dirs == SortedByLower({d \in f.dirs :
                              /\ exists(f, <<d, INDEX_MD>>)
                              /\ d \notin seen_dirs})
    IN NavCategories(nav_entries, f) \o RemainingCategories(remaining_dirs, f)

\* ------------------------------------------------------------------------
\* Landing index
\* ------------------------------------------------------------------------
format_category_entry(title, path, description) ==
    <<"-", " ", "[">> \o md_escape(title) \o <<"]", "(">>
        \o rel_url(split(path, "/")) \o <<")">> \o FULLWIDTH_COLON \o description

build_category_entries(categories) ==
    [i \in 1..Len(categories) |->
        format_category_entry(categories[i].title,
                              categories[i].index_rel_path,
                              CATEGORY_DESCRIPTIONS(categories[i].directory))]

render_index(entries) ==
    rstrip(join(<<"\n">>, <<INTRO, <<>>, CATEGORIES_HEADING, <<>>>> \o entries
                           \o <<<<>>, OUTRO>>)) \o <<"\n">>

\* ------------------------------------------------------------------------
\* Flattened index
\* ------------------------------------------------------------------------
\* sorted(p for p in directory.glob("*.md") if p.name.lower() != "index.md")
NoteFiles(f, d) ==
    SortedByLower({n \in listdir(f, d) :
                      endswith(n, DOT_MD) /\ lower(n) # INDEX_MD})

\* lines 285-287: the bullet of one note in the flattened index
AllNotesBullet(f, d, name) ==
    <<"-", " ", "[">> \o md_escape(read_note_title(f, d, name)) \o <<"]", "(">>
        \o rel_url(<<d, name>>) \o <<")">>

CategorySectionKeepEmpty(category, f) ==
    LET note_files == NoteFiles(f, category.directory)
    IN <<<<"#", "#", " ">> \o md_escape(category.title)>>
       \o [i \in 1..Len(note_files) |->
               AllNotesBullet(f, category.directory, note_files[i])]
       \o <<<<>>>>

CategorySection(category, f) ==
    LET note_files == NoteFiles(f, category.directory)
    IN IF note_files = <<>> THEN <<>>
       ELSE <<<<"#", "#", " ">> \o md_escape(category.title)>>
            \o [i \in 1..Len(note_files) |->
                    AllNotesBullet(f, category.directory, note_files[i])]
            \o <<<<>>>>

build_all_notes_sections(categories, f) ==
    Concat([i \in 1..Len(categories) |-> CategorySection(categories[i], f)])

render_all_notes(categories, f) ==
    rstrip(join(<<"\n">>, <<ALL_NOTES_TITLE, <<>>, ALL_NOTES_INTRO, <<>>>>
                           \o build_all_notes_sections(categories, f)))
        \o <<"\n">>

\* ------------------------------------------------------------------------
\* Category index pages
\* ------------------------------------------------------------------------
build_category_index(category, f) ==
    LET files == NoteFiles(f, category.directory)
        parts == <<<<"#", " ">> \o md_escape(category.title), <<>>,
                   CATEGORY_INDEX_NOTE_1, CATEGORY_INDEX_NOTE_2, <<>>>>
    IN IF files = <<>>
       THEN rstrip(join(<<"\n">>, parts \o <<NO_ENTRIES_LINE, <<>>>>)) \o <<"\n">>
       ELSE rstrip(join(<<"\n">>, parts
                \o [i \in 1..Len(files) |->
                       <<"-", " ", "[">>
                       \o md_escape(read_note_title(f, category.directory, files[i]))
                       \o <<"]", "(">> \o rel_url(<<files[i]>>) \o <<")">>]
                \o <<<<>>>>)) \o <<"\n">>


\* ------------------------------------------------------------------------
\* mkdocs.yml
\*   mkdocs.present : MKDOCS_PATH exists
\*   mkdocs.yaml    : what "import yaml; yaml.safe_load(text)" gives
\*   mkdocs.lines   : the lines of the text as the regular expressions of
\*                    _extract_category_nav_by_regex classify them
\* ------------------------------------------------------------------------
\* a line: "blank"; "item"  <indent>- <title>: <path>  (path may be empty);
\*         "dash"  <indent>- <anything else>;  "other"  no leading dash
Line(indent, kind, title, path) ==
    [indent |-> indent, kind |-> kind, title |-> title, path |-> path]

\* re.match(r"^(?P<indent>\s*)-\s*<categories>\s*:\s*", line)
MarkerMatch(line) == line.kind = "item" /\ strip(line.title) = CATEGORIES_KEY
\* indent_re
IndentMatch(line) == line.kind \in {"item", "dash"}
\* entry_re
EntryMatch(line) == line.kind = "item" /\ line.title # <<>> /\ line.path # <<>>

RECURSIVE ScanLines(_, _, _)
ScanLines(lines, in_categories, base_indent) ==
    IF lines = <<>> THEN <<>>
    ELSE LET line == Head(lines)
         IN IF ~in_categories
            THEN IF MarkerMatch(line)
                 THEN ScanLines(Tail(lines), TRUE, line.indent)
                 ELSE ScanLines(Tail(lines), FALSE, base_indent)
            ELSE IF line.kind = "blank"
                 THEN ScanLines(Tail(lines), TRUE, base_indent)
            ELSE IF ~IndentMatch(line) \/ line.indent <= base_indent
                 THEN <<>>
            ELSE IF EntryMatch(line)
                 THEN <<<<strip(line.title), strip(line.path)>>>>
                      \o ScanLines(Tail(lines), TRUE, base_indent)
                 ELSE ScanLines(Tail(lines), TRUE, base_indent)

_extract_category_nav_by_regex(lines) == ScanLines(lines, FALSE, 0)

\* YAML values.  yaml.kind: "raises" (ImportError or a YAMLError), "none"
\* (an empty or false document), "nodict" (a non-empty list or a scalar),
\* "dict".
\* nav.kind: "missing", "none", "str", "list";  an item is a string or a
\* mapping, with or without the categories key;  cats.kind: "none", "int",
\* "str", "list";  an entry is a string or a mapping of pairs.
YRaises == [kind |-> "raises", nav |-> [kind |-> "missing", items |-> <<>>]]
YNone == [kind |-> "none", nav |-> [kind |-> "missing", items |-> <<>>]]
YNoDict == [kind |-> "nodict", nav |-> [kind |-> "missing", items |-> <<>>]]
YDict(navkind, items) == [kind |-> "dict", nav |-> [kind |-> navkind, items |-> items]]
YCats(catskind, entries) == [kind |-> catskind, entries |-> entries]
YItemStr == [kind |-> "str", hasCats |-> FALSE, cats |-> YCats("none", <<>>)]
YItemDict == [kind |-> "dict", hasCats |-> FALSE, cats |-> YCats("none", <<>>)]
YItemCats(cats) == [kind |-> "dict", hasCats |-> TRUE, cats |-> cats]
YEntryStr == [kind |-> "str", pairs |-> <<>>]
YEntryDict(pairs) == [kind |-> "dict", pairs |-> pairs]

\* lines 155-158
RECURSIVE CatsResult(_)
CatsResult(entries) ==
    IF entries = <<>> THEN <<>>
    ELSE IF Head(entries).kind = "dict" /\ Len(Head(entries).pairs) = 1
         THEN <<Head(entries).pairs[1]>> \o CatsResult(Tail(entries))
         ELSE CatsResult(Tail(entries))

\* lines 151-160: the loop over nav; [raised, result]
RECURSIVE NavLoop(_)
NavLoop(items) ==
    IF items = <<>> THEN [raised |-> FALSE, result |-> <<>>]
    ELSE LET item == Head(items)
         IN IF item.kind = "dict" /\ item.hasCats
            THEN IF item.cats.kind = "int"
                 THEN [raised |-> TRUE, result |-> <<>>]
                 ELSE IF item.cats.kind = "list"
                      THEN [raised |-> FALSE, result |-> CatsResult(item.cats.entries)]
                      ELSE [raised |-> FALSE, result |-> <<>>]
            ELSE NavLoop(Tail(items))

\* the try block, lines 148-160
YamlPath(yaml) ==
    IF yaml.kind = "raises" \/ yaml.kind = "nodict"
    THEN [raised |-> TRUE, result |-> <<>>]
    ELSE IF yaml.kind = "none" THEN [raised |-> FALSE, result |-> <<>>]
    ELSE IF yaml.nav.kind = "none" THEN [raised |-> TRUE, result |-> <<>>]
    ELSE IF yaml.nav.kind = "list" THEN NavLoop(yaml.nav.items)
    ELSE [raised |-> FALSE, result |-> <<>>]

extract_category_nav_empty_on_error(cfg) ==
    LET t == YamlPath(cfg.yaml)
    IN IF t.raised THEN <<>> ELSE t.result

extract_category_nav(cfg) ==
    LET t == YamlPath(cfg.yaml)
    IN IF t.raised THEN _extract_category_nav_by_regex(cfg.lines) ELSE t.result


\* ------------------------------------------------------------------------
\* main
\* ------------------------------------------------------------------------
\* One statement "write_if_changed(path, content)" of main or of the loop of
\* update_category_indexes.  st = [fs, log, raised]; nothing catches an
\* exception, so after one is raised no further statement runs.
WriteStepContinue(st, path, content) ==
    LET r == write_if_changed(st.fs, path, content)
    IN [fs |-> r.fs,
        log |-> Append(st.log, [path |-> path, wrote |-> r.wrote,
                                raised |-> r.raised]),
        raised |-> st.raised \/ r.raised]

WriteStep(st, path, content) ==
    IF st.raised THEN st
    ELSE LET r == write_if_changed(st.fs, path, content)
         IN [fs |-> r.fs,
             log |-> Append(st.log, [path |-> path, wrote |-> r.wrote,
                                     raised |-> r.raised]),
             raised |-> r.raised]

RECURSIVE update_category_indexes(_, _)
update_category_indexes(categories, st) ==
    IF categories = <<>> THEN st
    ELSE LET cat == Head(categories)
             index_file == <<cat.directory, INDEX_MD>>
             content == build_category_index(cat, st.fs)
         IN update_category_indexes(Tail(categories),
                                    WriteStep(st, index_file, content))

\* the existence checks of lines 338-343: TRUE when main goes on
InputsPresentConfigOnly(cfg, f) == cfg.present

InputsPresent(cfg, f) == cfg.present /\ f.notes

\* a run of main: the file system afterwards, the exit status of the
\* process, how main ended, and what it computed on the way
Main(cfg, f) ==
    IF ~InputsPresent(cfg, f)
    THEN [fs |-> f, status |-> 1, outcome |-> "sys.exit", log |-> <<>>,
          nav_entries |-> <<>>, categories |-> <<>>, category_entries |-> <<>>,
          sections |-> <<>>]
    ELSE LET nav_entries == extract_category_nav(cfg)
             categories == gather_categories(nav_entries, f)
             category_entries == build_category_entries(categories)
             index_content == render_index(category_entries)
             all_notes_content == render_all_notes(categories, f)
             s0 == [fs |-> f, log |-> <<>>, raised |-> FALSE]
             s1 == WriteStep(s0, INDEX_PATH, index_content)
             s2 == WriteStep(s1, ALL_NOTES_PATH, all_notes_content)
             s3 == update_category_indexes(categories, s2)
         IN [fs |-> s3.fs,
             status |-> IF s3.raised THEN 1 ELSE 0,
             outcome |-> IF s3.raised THEN "exception" ELSE "return",
             log |-> s3.log,
             nav_entries |-> nav_entries,
             categories |-> categories,
             category_entries |-> category_entries,
             sections |-> build_all_notes_sections(categories, f)]

\* ------------------------------------------------------------------------
\* Inputs
\* ------------------------------------------------------------------------
NoCall == [op |-> "none"]

FileA == <<"a", ".", "m", "d">>
FileB == <<"B", ".", "m", "d">>
FileXY == <<"x", "_", "y", ".", "m", "d">>
FileIndexCap == <<"I", "n", "d", "e", "x", ".", "m", "d">>
FileTxt == <<"n", ".", "t", "x", "t">>

HeadingPlain == <<"#", " ", "t", "\n">>
HeadingSpecial == <<"#", "#", " ", "x", "_", "y", " ", "\n", "t", "\n">>
NoHeading == <<"t", "e", "x", "t", "\n">>
Stale == <<"o", "l", "d", "\n">>

\* a directory of notes: absent, or the contents of its files by name
DirAbsent == [isdir |-> FALSE, files |-> <<>>]
DirNoIndex == [isdir |-> TRUE, files |-> (FileA :> <<>>) @@ (FileIndexCap :> HeadingPlain)]
DirEmpty == [isdir |-> TRUE, files |-> (INDEX_MD :> NoHeading)]
DirFull ==
    [isdir |-> TRUE,
     files |-> (INDEX_MD :> HeadingPlain) @@ (FileA :> <<>>) @@ (FileB :> <<>>)
               @@ (FileXY :> <<>>) @@ (FileIndexCap :> <<>>) @@ (FileTxt :> <<>>)]
DirSpecial == [isdir |-> TRUE, files |-> (INDEX_MD :> HeadingSpecial) @@ (FileA :> <<>>)]

DirNames == {DirMisc, DirAB, DirB}

DirVariants(d) ==
    IF d = DirMisc THEN {DirAbsent, DirNoIndex, DirEmpty, DirFull}
    ELSE IF d = DirB THEN {DirAbsent, DirEmpty, DirFull, DirSpecial}
    ELSE {DirAbsent, DirEmpty}

\* the files of NOTES_DIR itself and the read-only paths
RootVariants ==
    { [files |-> <<>>, readonly |-> {}],
      [files |-> (INDEX_PATH :> Stale), readonly |-> {}],
      [files |-> (INDEX_PATH :> Stale), readonly |-> {INDEX_PATH}],
      [files |-> <<>>, readonly |-> {ALL_NOTES_PATH}],
      [files |-> <<>>, readonly |-> {<<DirB, INDEX_MD>>}] }

Tree(root, ds) ==
    LET paths == DOMAIN root.files
                 \cup {<<d, n>> : d \in {e \in DirNames : ds[e].isdir},
                                  n \in UNION {DOMAIN ds[e].files : e \in DirNames}}
        present == {p \in paths : Len(p) = 1 \/ p[2] \in DOMAIN ds[p[1]].files}
    IN [notes |-> TRUE,
        dirs |-> {d \in DirNames : ds[d].isdir},
        files |-> [p \in present |->
                     IF Len(p) = 1 THEN root.files[p] ELSE ds[p[1]].files[p[2]]],
        readonly |-> root.readonly]

NoNotes == [notes |-> FALSE, dirs |-> {}, files |-> <<>>, readonly |-> {}]

Trees ==
    {Tree(root, ds) : root \in RootVariants,
                      ds \in {g \in [DirNames -> UNION {DirVariants(d) : d \in DirNames}] :
                                 \A d \in DirNames : g[d] \in DirVariants(d)}}

NavPool ==
    { <<<<"M">>, DirMisc \o <<"/">> \o INDEX_MD>>,
      <<<<"m", "*">>, DirMisc \o <<"/">> \o FileA>>,
      <<<<"b">>, DirB \o <<"/">> \o INDEX_MD>>,
      <<<<"h">>, INDEX_MD>> }

\* the lists of at most MaxNav different entries
NavLists ==
    {nav \in UNION {[1..n -> NavPool] : n \in 0..MaxNav} :
        \A i, j \in 1..Len(nav) : i # j => nav[i] # nav[j]}

\* a well-formed mkdocs.yml that declares the entries nav
MkdocsOf(nav) ==
    [present |-> TRUE,
     yaml |-> YDict("list", <<YItemStr,
                 YItemCats(YCats("list", [i \in 1..Len(nav) |-> YEntryDict(<<nav[i]>>)]))>>),
     lines |-> <<Line(0, "other", <<>>, <<>>), Line(2, "dash", <<>>, <<>>),
                 Line(2, "item", CATEGORIES_KEY, <<>>)>>
               \o [i \in 1..Len(nav) |-> Line(6, "item", nav[i][1], nav[i][2])]]

NoMkdocs == [present |-> FALSE, yaml |-> YNone, lines |-> <<>>]

\* ------------------------------------------------------------------------
\* Specification of main: any configuration, any notes tree, main run
\* repeatedly with nothing else touching the files
\* ------------------------------------------------------------------------
Init ==
    /\ mkdocs \in {NoMkdocs} \cup {MkdocsOf(nav) : nav \in NavLists}
    /\ fs \in {NoNotes} \cup Trees
    /\ runs = <<>>
    /\ call = NoCall

RunMain ==
    /\ Len(runs) < MaxRuns
    /\ LET r == Main(mkdocs, fs)
       IN /\ fs' = r.fs
          /\ runs' = Append(runs, [pre |-> fs, post |-> r.fs, status |-> r.status,
                                   outcome |-> r.outcome, log |-> r.log,
                                   nav_entries |-> r.nav_entries,
                                   categories |-> r.categories,
                                   category_entries |-> r.category_entries,
                                   sections |-> r.sections])
    /\ UNCHANGED <<mkdocs, call>>

Next == RunMain

Spec == Init /\ [][Next]_vars


\* ------------------------------------------------------------------------
\* Reading the generated Markdown back
\* ------------------------------------------------------------------------
IsBullet(line) == startswith(line, <<"-", " ", "[">>)
IsH2(line) == startswith(line, <<"#", "#", " ">>)

\* the text between the first "](" and the last ")" of a bullet
LinkTarget(line) ==
    LET opens == {i \in 1..(Len(line) - 1) : line[i] = "]" /\ line[i + 1] = "("}
        closes == {i \in 1..Len(line) : line[i] = ")"}
        o == CHOOSE i \in opens : \A j \in opens : i <= j
        c == CHOOSE i \in closes : \A j \in closes : j <= i
    IN IF opens = {} \/ closes = {} THEN <<>> ELSE SubSeq(line, o + 2, c - 1)

\* every character of SpecialChars preceded by one backslash, nothing else changed
EscapedOnce(text) ==
    Concat([i \in 1..Len(text) |->
               IF text[i] \in SpecialChars THEN <<"\\", text[i]>> ELSE <<text[i]>>])

\* the part of a relative path before its first "/"
RECURSIVE FirstSegment(_)
FirstSegment(path) ==
    IF path = <<>> \/ Head(path) = "/" THEN <<>>
    ELSE <<Head(path)>> \o FirstSegment(Tail(path))

\* the first-level .md files of a category other than its index
QualifyingNotes(f, d) ==
    {n \in listdir(f, d) : endswith(n, DOT_MD) /\ lower(n) # INDEX_MD}

Count(seq, Test(_)) == Cardinality({i \in 1..Len(seq) : Test(seq[i])})

RunsOfMain == {runs[i] : i \in 1..Len(runs)}
\* the runs that got past the existence checks
Started == {r \in RunsOfMain : r.outcome # "sys.exit"}

\* ------------------------------------------------------------------------
\* C1 - Idempotence of main: when a first run of main completes, a second
\* run with nothing changed in between performs no write at all.
\* ------------------------------------------------------------------------
C1_SecondRunWritesNothing ==
    (Len(runs) >= 2 /\ runs[1].outcome = "return")
        => \A i \in 1..Len(runs[2].log) : ~runs[2].log[i].wrote

\* ------------------------------------------------------------------------
\* C2 - The list returned by gather_categories has no two Category records
\* with the same directory name, whatever the navigation entries are.
\* ------------------------------------------------------------------------
C2_NoDuplicateDirectory ==
    \A r \in Started :
        \A i, j \in 1..Len(r.categories) :
            i # j => r.categories[i].directory # r.categories[j].directory

\* ------------------------------------------------------------------------
\* C3 - Category order: the navigation entries whose directory exists come
\* first, in their declared order; the directories with an index.md that no
\* navigation entry consumed follow, ordered by lower-cased name; the
\* landing bullets and the flattened sections follow the same order.
\* ------------------------------------------------------------------------
C3_CategoryOrder ==
    \A r \in Started :
        LET cats == r.categories
            declared == SelectSeq(r.nav_entries,
                            LAMBDA e : FirstSegment(e[2]) \in r.pre.dirs)
            k == Len(declared)
            rest == {d \in r.pre.dirs :
                        /\ <<d, INDEX_MD>> \in DOMAIN r.pre.files
                        /\ \A i \in 1..Len(r.nav_entries) :
                               FirstSegment(r.nav_entries[i][2]) # d}
            withNotes == SelectSeq(cats,
                            LAMBDA c : QualifyingNotes(r.pre, c.directory) # {})
        IN /\ Len(cats) = k + Cardinality(rest)
           /\ \A i \in 1..k :
                 /\ cats[i].title = declared[i][1]
                 /\ cats[i].index_rel_path = declared[i][2]
                 /\ cats[i].directory = FirstSegment(declared[i][2])
           /\ {cats[i].directory : i \in (k + 1)..Len(cats)} = rest
           /\ \A i, j \in (k + 1)..Len(cats) :
                 i < j => StrLess(lower(cats[i].directory), lower(cats[j].directory))
           /\ Len(r.category_entries) = Len(cats)
           /\ \A i \in 1..Len(cats) :
                 LinkTarget(r.category_entries[i]) = cats[i].index_rel_path
           /\ r.log[1].wrote =>
                 SelectSeq(splitlines(r.post.files[INDEX_PATH]), IsBullet)
                     = r.category_entries
           /\ SelectSeq(r.sections, IsH2)
                 = [i \in 1..Len(withNotes) |->
                        <<"#", "#", " ">> \o EscapedOnce(withNotes[i].title)]

C3_Witness ==
    \E r \in Started :
        /\ Len(r.categories) = 3
        /\ r.categories[1].directory = DirMisc
        /\ r.categories[2].directory = DirB
        /\ r.categories[3].directory = DirAB
        /\ r.log[1].wrote

\* ------------------------------------------------------------------------
\* C5 - With mkdocs.yml or the notes directory absent main ends with exit
\* status 1 and has changed no file; otherwise, when main completes, the
\* exit status is 0.
\* ------------------------------------------------------------------------
C5_ExitStatus ==
    \A r \in RunsOfMain :
        IF ~mkdocs.present \/ ~r.pre.notes
        THEN r.status = 1 /\ r.post = r.pre /\ r.log = <<>>
        ELSE r.outcome = "return" => r.status = 0

C5_Witness ==
    \E r \in RunsOfMain : mkdocs.present /\ ~r.pre.notes /\ r.status = 1


\* ------------------------------------------------------------------------
\* C7 - Exclusion: no file whose name lower-cases to "index.md" is listed
\* as a note bullet in the flattened index or in its category's index page;
\* every other first-level .md file of a category is listed exactly once in
\* the flattened index and exactly once in the category's index page.
\* ------------------------------------------------------------------------
C7_ListedExactlyOnce ==
    \A r \in Started :
        \A i \in 1..Len(r.categories) :
            LET d == r.categories[i].directory
                page == IF r.outcome = "return"
                        THEN splitlines(r.post.files[<<d, INDEX_MD>>])
                        ELSE <<>>
            IN \A n \in listdir(r.pre, d) :
                  LET InFlat(line) == IsBullet(line) /\ LinkTarget(line) = d \o <<"/">> \o n
                      InPage(line) == IsBullet(line) /\ LinkTarget(line) = n
                  IN IF lower(n) = INDEX_MD
                     THEN Count(r.sections, InFlat) = 0 /\ Count(page, InPage) = 0
                     ELSE endswith(n, DOT_MD) =>
                            /\ Count(r.sections, InFlat) = 1
                            /\ r.outcome = "return" => Count(page, InPage) = 1

\* ------------------------------------------------------------------------
\* C8 - Empty category: a category without qualifying note files puts no
\* heading and no bullet into the flattened index, and update_category_indexes
\* still writes its index.md: the heading, the two fixed lines and the
\* placeholder line, without any bullet.
\* ------------------------------------------------------------------------
C8_EmptyCategory ==
    \A r \in Started :
        LET cats == r.categories
            nonEmpty == {i \in 1..Len(cats) : QualifyingNotes(r.pre, cats[i].directory) # {}}
        IN /\ Count(r.sections, IsH2) = Cardinality(nonEmpty)
           /\ \A i \in (1..Len(cats)) \ nonEmpty :
                 LET d == cats[i].directory
                     InDir(line) == IsBullet(line)
                                    /\ startswith(LinkTarget(line), d \o <<"/">>)
                 IN /\ Count(r.sections, InDir) = 0
                    /\ r.outcome = "return" =>
                          /\ r.log[2 + i].path = <<d, INDEX_MD>>
                          /\ <<d, INDEX_MD>> \in DOMAIN r.post.files
                          /\ \E j \in 1..Len(cats) :
                                /\ cats[j].directory = d
                                /\ r.post.files[<<d, INDEX_MD>>] =
                                      <<"#", " ">> \o EscapedOnce(cats[j].title)
                                      \o <<"\n", "\n">> \o CATEGORY_INDEX_NOTE_1
                                      \o <<"\n">> \o CATEGORY_INDEX_NOTE_2
                                      \o <<"\n", "\n">> \o NO_ENTRIES_LINE \o <<"\n">>

C8_Witness ==
    \E r \in Started :
        /\ r.outcome = "return"
        /\ \E i, j \in 1..Len(r.categories) :
              /\ QualifyingNotes(r.pre, r.categories[i].directory) = {}
              /\ QualifyingNotes(r.pre, r.categories[j].directory) # {}
              /\ r.log[2 + i].wrote

\* the artifacts of a run, in the order main writes them
ArtifactPaths(r) ==
    <<INDEX_PATH, ALL_NOTES_PATH>>
        \o [i \in 1..Len(r.categories) |-> <<r.categories[i].directory, INDEX_MD>>]

PairM == <<<<"M">>, DirMisc \o <<"/">> \o INDEX_MD>>
PairB == <<<<"b">>, DirB \o <<"/">> \o INDEX_MD>>

YamlPool ==
    { YRaises, YNone, YNoDict,
      YDict("missing", <<>>), YDict("none", <<>>), YDict("str", <<>>),
      YDict("list", <<>>),
      YDict("list", <<YItemStr, YItemDict>>),
      YDict("list", <<YItemCats(YCats("none", <<>>))>>),
      YDict("list", <<YItemStr, YItemCats(YCats("int", <<>>))>>),
      YDict("list", <<YItemCats(YCats("str", <<>>))>>),
      YDict("list", <<YItemStr, YItemCats(YCats("list", <<YEntryDict(<<PairB>>)>>)),
                      YItemCats(YCats("list", <<YEntryDict(<<PairM>>)>>))>>),
      YDict("list", <<YItemCats(YCats("list",
                        <<YEntryDict(<<PairM>>), YEntryStr,
                          YEntryDict(<<PairM, PairB>>), YEntryDict(<<PairB>>)>>))>>) }

LinePool ==
    { Line(0, "other", <<>>, <<>>),
      Line(0, "blank", <<>>, <<>>),
      Line(2, "item", CATEGORIES_KEY, <<>>),
      Line(2, "item", <<"x">>, <<"y">>),
      Line(6, "item", <<"M">>, DirMisc \o <<"/">> \o INDEX_MD),
      Line(6, "item", <<"b", " ">>, DirB \o <<"/">> \o INDEX_MD),
      Line(6, "dash", <<>>, <<>>) }

LineLists == UNION {[1..n -> LinePool] : n \in 0..MaxLines}

NavTree ==
    Tree([files |-> <<>>, readonly |-> {}],
         [d \in DirNames |-> IF d = DirMisc THEN DirFull ELSE DirEmpty])

InitNav ==
    /\ mkdocs \in {[present |-> TRUE, yaml |-> y, lines |-> ls] :
                       y \in YamlPool, ls \in LineLists}
    /\ fs = NavTree
    /\ runs = <<>>
    /\ call = NoCall

ExtractCall ==
    /\ call.op = "none"
    /\ LET nav_entries == extract_category_nav(mkdocs)
       IN call' = [op |-> "extract_category_nav", result |-> nav_entries,
                   categories |-> gather_categories(nav_entries, fs)]
    /\ UNCHANGED <<mkdocs, fs, runs>>

NextNav == ExtractCall

SpecNav == InitNav /\ [][NextNav]_vars

\* the categories the directory scan alone gives
ScanOnly(categories, f) ==
    /\ {categories[i].directory : i \in 1..Len(categories)}
          = {d \in f.dirs : <<d, INDEX_MD>> \in DOMAIN f.files}
    /\ \A i \in 1..Len(categories) :
          categories[i].index_rel_path = categories[i].directory \o <<"/">> \o INDEX_MD

\* the parsed document has the expected shape: a mapping whose nav is a
\* list with an item that maps the categories key to a list
WellShaped(yaml) ==
    /\ yaml.kind = "dict"
    /\ yaml.nav.kind = "list"
    /\ \E i \in 1..Len(yaml.nav.items) :
          /\ yaml.nav.items[i].kind = "dict"
          /\ yaml.nav.items[i].hasCats
          /\ yaml.nav.items[i].cats.kind = "list"

\* the try block ends in an exception: no parser or a parse error, a document
\* that is no mapping, a null nav, or a first categories value that is a number
TryRaises(yaml) ==
    \/ yaml.kind \in {"raises", "nodict"}
    \/ yaml.kind = "dict" /\ yaml.nav.kind = "none"
    \/ /\ yaml.kind = "dict" /\ yaml.nav.kind = "list"
       /\ \E i \in 1..Len(yaml.nav.items) :
             /\ yaml.nav.items[i].hasCats /\ yaml.nav.items[i].cats.kind = "int"
             /\ \A j \in 1..(i - 1) : ~yaml.nav.items[j].hasCats

\* the entries of the categories block of the text: the "- title: path" lines
\* after the first marker line and before the first non-blank line that is
\* no list item or is not indented deeper than the marker
BlockEntries(lines) ==
    LET markers == {i \in 1..Len(lines) : MarkerMatch(lines[i])}
        m == CHOOSE i \in markers : \A j \in markers : i <= j
        stops == {i \in (m + 1)..Len(lines) :
                     /\ lines[i].kind # "blank"
                     /\ (lines[i].kind = "other" \/ lines[i].indent <= lines[m].indent)}
        e == IF stops = {} THEN Len(lines) + 1
             ELSE CHOOSE i \in stops : \A j \in stops : i <= j
        block == SubSeq(lines, m + 1, e - 1)
        found == SelectSeq(block, EntryMatch)
    IN IF markers = {} THEN <<>>
       ELSE [i \in 1..Len(found) |-> <<strip(found[i].title), strip(found[i].path)>>]

\* ------------------------------------------------------------------------
\* C4 - When parsing the configuration raises any error, or the structure
\* does not match the expected navigation shape, extract_category_nav
\* returns the empty list, so that gather_categories builds the category
\* list from the directory scan alone.
\* ------------------------------------------------------------------------
C4_EmptyOnErrorOrMismatch ==
    (call.op = "extract_category_nav"
        /\ (mkdocs.yaml.kind = "raises" \/ ~WellShaped(mkdocs.yaml)))
    => (call.result = <<>> /\ ScanOnly(call.categories, fs))

\* C4 as amended - when the YAML path raises any error, extract_category_nav
\* returns what the line scan finds in the text (the entries of the
\* categories block, empty only if there are none); when the parse succeeds
\* and the structure does not match, it returns the empty list; and whenever
\* it returns the empty list gather_categories builds the category list from
\* the directory scan alone.
C4_FallbackOnError ==
    call.op = "extract_category_nav" =>
        /\ TryRaises(mkdocs.yaml) => call.result = BlockEntries(mkdocs.lines)
        /\ (~TryRaises(mkdocs.yaml) /\ ~WellShaped(mkdocs.yaml)) => call.result = <<>>
        /\ call.result = <<>> => ScanOnly(call.categories, fs)

C4_Witness ==
    /\ call.op = "extract_category_nav"
    /\ mkdocs.yaml.kind = "raises"
    /\ Len(call.result) = 2
    /\ call.categories[1].title = <<"b">>


\* ------------------------------------------------------------------------
\* Specification of the escaping: md_escape and the two bullet formats
\* applied to any title, path and note name
\* ------------------------------------------------------------------------
TitleChars == SpecialChars \cup {"a", " "}

Titles == UNION {[1..n -> TitleChars] : n \in 0..MaxTitleLen}

PathPool ==
    { DirAB \o <<"/">> \o INDEX_MD,
      <<"a", "(", "1", ")", "/", "x", "_", "y", "/", "#", ".", "m", "d">>,
      INDEX_MD,
      <<"a", "*", "/", "/", "b">> }

NotePool == {FileA, FileXY, <<"[", "a", "]", ".", "m", "d">>, <<"a", ".", "b", ".", "m", "d">>}

InitEscape ==
    /\ mkdocs = NoMkdocs
    /\ fs = NoNotes
    /\ runs = <<>>
    /\ call = NoCall

EscapeCall ==
    /\ call.op = "none"
    /\ \E text \in Titles :
          call' = [op |-> "md_escape", text |-> text, result |-> md_escape(text)]
    /\ UNCHANGED <<mkdocs, fs, runs>>

FormatEntryCall ==
    /\ call.op = "none"
    /\ \E title \in Titles, path \in PathPool :
          call' = [op |-> "format_category_entry", text |-> title, path |-> path,
                   result |-> format_category_entry(title, path, PLACEHOLDER_DESCRIPTION)]
    /\ UNCHANGED <<mkdocs, fs, runs>>

NoteBulletCall ==
    /\ call.op = "none"
    /\ \E d \in DirNames, name \in NotePool :
          call' = [op |-> "all_notes_bullet", dir |-> d, name |-> name,
                   result |-> AllNotesBullet(fs, d, name)]
    /\ UNCHANGED <<mkdocs, fs, runs>>

NextEscape == EscapeCall \/ FormatEntryCall \/ NoteBulletCall

SpecEscape == InitEscape /\ [][NextEscape]_vars

\* the name of a note without its ".md"
WithoutDotMd(name) == SubSeq(name, 1, Len(name) - 3)

\* ------------------------------------------------------------------------
\* C9 - Escaping: md_escape puts exactly one backslash before every
\* occurrence of \ * _ [ ] ( ) # and changes nothing else (a backslash it
\* has added is never escaped again), and the link target between the
\* parentheses of a rendered bullet is the relative path, unescaped.
\* ------------------------------------------------------------------------
C9_EscapedOnceTargetUnescaped ==
    /\ call.op = "md_escape" => call.result = EscapedOnce(call.text)
    /\ call.op = "format_category_entry" =>
          call.result = <<"-", " ", "[">> \o EscapedOnce(call.text) \o <<"]", "(">>
                        \o call.path \o <<")">> \o FULLWIDTH_COLON
                        \o PLACEHOLDER_DESCRIPTION
    /\ call.op = "all_notes_bullet" =>
          call.result = <<"-", " ", "[">> \o EscapedOnce(WithoutDotMd(call.name))
                        \o <<"]", "(">> \o call.dir \o <<"/">> \o call.name \o <<")">>

C9_Witness ==
    /\ call.op = "format_category_entry"
    /\ call.text = <<"\\", "*">>
    /\ call.path = <<"a", "(", "1", ")", "/", "x", "_", "y", "/", "#", ".", "m", "d">>
    /\ Len(call.result) = 3 + 4 + 2 + 13 + 3

\* ------------------------------------------------------------------------
\* Specification of the sync writer: write_if_changed applied to any path
\* with any content, again and again
\* ------------------------------------------------------------------------
WritePaths == {INDEX_PATH, ALL_NOTES_PATH, <<DirMisc, INDEX_MD>>}
WriteContents == {<<>>, Stale, HeadingPlain}

InitWrite ==
    /\ mkdocs = NoMkdocs
    /\ fs \in {Tree(root, [d \in DirNames |-> IF d = DirMisc THEN DirNoIndex ELSE DirAbsent]) :
                  root \in RootVariants}
    /\ runs = <<>>
    /\ call = NoCall

WriteCall ==
    /\ \E path \in WritePaths, content \in WriteContents :
          LET r == write_if_changed(fs, path, content)
          IN /\ fs' = r.fs
             /\ call' = [op |-> "write_if_changed", path |-> path, content |-> content,
                         before |-> fs, wrote |-> r.wrote, raised |-> r.raised]
    /\ UNCHANGED <<mkdocs, runs>>

NextWrite == WriteCall

SpecWrite == InitWrite /\ [][NextWrite]_vars

\* ------------------------------------------------------------------------
\* C6 - write_if_changed takes an absent file for the empty string and
\* writes if and only if the content differs from the existing content:
\* when they are equal nothing is written and the file system is unchanged;
\* when they differ the file holds exactly the content afterwards and no
\* other file has changed.  (A write that the file system refuses raises
\* and changes nothing.)
\* ------------------------------------------------------------------------
C6_WriteIffChanged ==
    call.op = "write_if_changed" =>
        LET before == call.before
            old == IF call.path \in DOMAIN before.files
                   THEN before.files[call.path] ELSE <<>>
        IN /\ (call.wrote \/ call.raised) <=> old # call.content
           /\ call.raised <=> (old # call.content /\ call.path \in before.readonly)
           /\ ~call.wrote => fs = before
           /\ call.wrote =>
                 /\ call.path \in DOMAIN fs.files
                 /\ fs.files[call.path] = call.content
                 /\ DOMAIN fs.files = DOMAIN before.files \cup {call.path}
                 /\ \A p \in DOMAIN before.files \ {call.path} :
                       fs.files[p] = before.files[p]
                 /\ fs.dirs = before.dirs /\ fs.notes = before.notes
                 /\ fs.readonly = before.readonly

C6_Witness ==
    /\ call.op = "write_if_changed"
    /\ call.path \notin DOMAIN call.before.files
    /\ call.content = <<>>
    /\ ~call.wrote
    /\ call.path \notin DOMAIN fs.files
    /\ \E p \in DOMAIN fs.files : Len(p) = 1 /\ fs.files[p] = HeadingPlain

====
